---- MODULE Spec2Model ----
(***************************************************************************)
(* Model of the key handler of the sdm660-common device tree               *)
(* (KeyHandler.java): the two-key screenshot gesture built from the        *)
(* "shortcuts" key and the power key.                                      *)
(*                                                                         *)
(* The program state is the set of fields of the KeyHandler object plus    *)
(* the number of triggerPartialScreenshot callbacks queued on the main     *)
(* looper.  One step is one call of handleKeyEvent or one run of a queued  *)
(* callback.  What a step hands to the platform (injected key events,      *)
(* screenshot requests, timer operations) is recorded in `out`.            *)
(***************************************************************************)
EXTENDS Integers, Sequences, FiniteSets, TLC

\* ---------------------------------------------------------------------
\* Bounds of the model
\* ---------------------------------------------------------------------

\* Device ids range over 0..MaxDeviceId.
MaxDeviceId == 2

\* At most MaxPending callbacks are queued on the looper at a time.
MaxPending == 2

\* ---------------------------------------------------------------------
\* Platform constants used by the source
\* ---------------------------------------------------------------------

ACTION_DOWN == 0
ACTION_UP == 1
ACTION_MULTIPLE == 2
FLAG_CANCELED == 32
TAKE_SCREENSHOT_FULLSCREEN == 1
TAKE_SCREENSHOT_SELECTED_REGION == 2
longPressTimeout == 500

TRUSTED_SHORTCUTS_DEVICE_NAME == "gpio-keys"
TRUSTED_POWER_DEVICE_NAME == "qpnp_pon"

\* A Java reference is modelled as a sequence: <<>> is null, <<x>> refers
\* to x.
Null == <<>>

\* String.equals: a string never equals null.
StringEquals(str, ref) == ref # Null /\ ref[1] = str

\* ---------------------------------------------------------------------
\* The environment: input devices, key layout, configuration files
\* ---------------------------------------------------------------------

DeviceIds == 0..MaxDeviceId

DeviceNames == {TRUSTED_SHORTCUTS_DEVICE_NAME, TRUSTED_POWER_DEVICE_NAME}

\* The board has one gpio-keys device and one qpnp_pon device; which of
\* the names every other id carries is left open.  A device keeps its
\* name for the whole run.
Registries ==
    {r \in [DeviceIds -> DeviceNames] :
        /\ r[1] = TRUSTED_SHORTCUTS_DEVICE_NAME
        /\ r[2] = TRUSTED_POWER_DEVICE_NAME}

\* What readOneLine returns for the two /proc/keypad files: a reference to
\* the line, or Null when the file cannot be read.  A line is a sequence
\* of characters, a character being its UTF-16 code: 48..57 are "0".."9",
\* 43 is "+", 45 is "-", 120 is "x".
ShortcutsLine == <<<<55, 54, 54>>>>
PowerLine == <<<<49, 49, 54>>>>

\* Other things readOneLine can return: null for a file that cannot be
\* read, the line "7x", and 766 written in Arabic-Indic digits (U+0667
\* U+0666 U+0666).
MissingLine == Null
MalformedLine == <<<<55, 120>>>>
ArabicIndicLine == <<<<1639, 1638, 1638>>>>

\* The contents the two files are drawn from when the configuration is
\* left open.
Lines == {ShortcutsLine, PowerLine, MissingLine, MalformedLine, ArabicIndicLine}

\* Scan codes an event can carry: the two configured ones and one more.
ScanCodes == {766, 116, 0}

\* The key layout of the board: the key code the input reader reports
\* for a scan code.
KeyCodeOf(scanCode) ==
    IF scanCode = 766 THEN 289
    ELSE IF scanCode = 116 THEN 26
    ELSE 0

KeyCodes == {KeyCodeOf(c) : c \in ScanCodes}

Actions == {ACTION_DOWN, ACTION_UP, ACTION_MULTIPLE}

\* ---------------------------------------------------------------------
\* Integer.parseInt
\* ---------------------------------------------------------------------

\* Character.digit(c, 10) of a UTF-16 code: every script's decimal digits
\* count, not those of ASCII alone.  ZeroDigits holds the code of the digit
\* zero of each script of the basic plane; its nine successors are the
\* digits one to nine.  parseInt reads the line char by char, so a digit
\* beyond the basic plane comes as two surrogates, neither of them a digit.
ZeroDigits ==
    {48, 1632, 1776, 1984, 2406, 2534, 2662, 2790, 2918, 3046, 3174, 3302,
     3430, 3558, 3664, 3792, 3872, 4160, 4240, 6112, 6160, 6470, 6608, 6784,
     6800, 6992, 7088, 7232, 7248, 42528, 43216, 43264, 43472, 43504, 43600,
     44016, 65296}

Digits == UNION {z..(z + 9) : z \in ZeroDigits}

DigitValue(c) == c - (CHOOSE z \in ZeroDigits : z <= c /\ c <= z + 9)

IsDigit(c) == c \in Digits

\* The digit loop of Integer.parseInt: the value is accumulated negatively
\* and checked against limit before every step.  <<n>> is the accumulated
\* (negative) value, <<>> stands for a NumberFormatException.
RECURSIVE Accumulate(_, _)
Accumulate(cs, limit) ==
    IF cs = <<>> THEN <<0>>
    ELSE LET prev == Accumulate(SubSeq(cs, 1, Len(cs) - 1), limit)
             c == cs[Len(cs)]
         IN IF prev = <<>> \/ ~IsDigit(c) THEN <<>>
            ELSE IF prev[1] < -214748364 THEN <<>>
            ELSE IF prev[1] * 10 < limit + DigitValue(c) THEN <<>>
            ELSE <<prev[1] * 10 - DigitValue(c)>>

\* The result of Integer.parseInt(ref): <<n>> when the line is a decimal
\* integer that fits an int, <<>> when parseInt throws NumberFormatException
\* (a null line, an empty line, a sign alone, a character that is no digit,
\* a value out of range).
parseInt(ref) ==
    IF ref = Null THEN <<>>
    ELSE IF Len(ref[1]) = 0 THEN <<>>
    ELSE LET line == ref[1]
             negative == line[1] = 45
             signed == line[1] \in {45, 43}
             body == IF signed THEN SubSeq(line, 2, Len(line)) ELSE line
             limit == IF negative THEN -2147483647 - 1 ELSE -2147483647
             acc == Accumulate(body, limit)
         IN IF Len(body) = 0 \/ acc = <<>> THEN <<>>
            ELSE IF negative THEN acc ELSE <<0 - acc[1]>>

\* The constructor's try block: the two assignments run in order and the
\* first NumberFormatException ends the block; a field not yet assigned
\* keeps its initial value 0.
ScanCodesOf(shortcutsLine, powerLine) ==
    LET s == parseInt(shortcutsLine)
        p == parseInt(powerLine)
    IN IF s = <<>> THEN [shortcuts |-> 0, power |-> 0]
       ELSE IF p = <<>> THEN [shortcuts |-> s[1], power |-> 0]
       ELSE [shortcuts |-> s[1], power |-> p[1]]

\* ---------------------------------------------------------------------
\* The handler's effects on the platform
\* ---------------------------------------------------------------------

injectKey(s, code, action, flags) ==
    [s EXCEPT !.out = Append(@, <<"injectKey", code, action, flags>>)]

takeScreenshot(s, partial) ==
    LET type == IF partial THEN TAKE_SCREENSHOT_SELECTED_REGION
                ELSE TAKE_SCREENSHOT_FULLSCREEN
    IN [s EXCEPT !.out = Append(@, <<"takeScreenshot", type>>)]

\* Handler.postDelayed enqueues one more message for the runnable; it does
\* not look for messages already queued for it.
postDelayed(s, delay) ==
    [s EXCEPT !.pending = @ + 1,
              !.out = Append(@, <<"postDelayed", delay>>)]

\* Handler.removeCallbacks removes every queued message of the runnable.
removeCallbacks(s) ==
    [s EXCEPT !.pending = 0,
              !.out = Append(@, <<"removeCallbacks">>)]

\* e.device is what InputDevice.getDevice(e.deviceId) returns: null for
\* an id that is not registered, the input device otherwise.
getDeviceName(e) ==
    IF e.device = Null THEN Null ELSE <<e.device[1].name>>

\* ---------------------------------------------------------------------
\* handleShortcutsKeyEvent
\* ---------------------------------------------------------------------

\* shortcutsDeviceCheck without the comparison of a bound role's device id
\* with the event's.
shortcutsDeviceCheck_BoundTrustsAll(s, e) ==
    IF s.trustedShortcutsDeviceId = 0
    THEN IF StringEquals(TRUSTED_SHORTCUTS_DEVICE_NAME, getDeviceName(e))
         THEN [state |-> [s EXCEPT !.trustedShortcutsDeviceId = e.deviceId],
               pass |-> TRUE]
         ELSE [state |-> s, pass |-> FALSE]
    ELSE [state |-> s, pass |-> TRUE]

\* shortcutsDeviceCheck remembering a lookup that did not match: the role
\* is marked with an id no device has and never looks a name up again.
shortcutsDeviceCheck_CachesFailure(s, e) ==
    IF s.trustedShortcutsDeviceId = 0
    THEN IF StringEquals(TRUSTED_SHORTCUTS_DEVICE_NAME, getDeviceName(e))
         THEN [state |-> [s EXCEPT !.trustedShortcutsDeviceId = e.deviceId],
               pass |-> TRUE]
         ELSE [state |-> [s EXCEPT !.trustedShortcutsDeviceId = -1],
               pass |-> FALSE]
    ELSE IF s.trustedShortcutsDeviceId # e.deviceId
         THEN [state |-> s, pass |-> FALSE]
         ELSE [state |-> s, pass |-> TRUE]

\* The device check: the handler's state after it, and whether the event
\* goes on to the scan code check.
shortcutsDeviceCheck(s, e) ==
    IF s.trustedShortcutsDeviceId = 0
    THEN IF StringEquals(TRUSTED_SHORTCUTS_DEVICE_NAME, getDeviceName(e))
         THEN [state |-> [s EXCEPT !.trustedShortcutsDeviceId = e.deviceId],
               pass |-> TRUE]
         ELSE [state |-> s, pass |-> FALSE]
    ELSE IF s.trustedShortcutsDeviceId # e.deviceId
         THEN [state |-> s, pass |-> FALSE]
         ELSE [state |-> s, pass |-> TRUE]

\* shortcutsDown injecting its own down also when the power key is pressed.
shortcutsDown_AlwaysInjectsDown(s, interactive) ==
    LET s0 == injectKey(s, s.shortcutsKeyCode, ACTION_DOWN, 0)
        s1 == IF s.powerKeyPressed
              THEN postDelayed(
                       injectKey(s0, s.powerKeyCode, ACTION_UP, FLAG_CANCELED),
                       longPressTimeout)
              ELSE s0
    IN IF interactive
       THEN [s1 EXCEPT !.shortcutsKeyPressed = TRUE]
       ELSE s1

shortcutsDown(s, interactive) ==
    LET s1 == IF s.powerKeyPressed
              THEN postDelayed(
                       injectKey(s, s.powerKeyCode, ACTION_UP, FLAG_CANCELED),
                       longPressTimeout)
              ELSE injectKey(s, s.shortcutsKeyCode, ACTION_DOWN, 0)
    IN IF interactive
       THEN [s1 EXCEPT !.shortcutsKeyPressed = TRUE]
       ELSE s1

\* shortcutsUp without handler.removeCallbacks.
shortcutsUp_NoRemoveCallbacks(s) ==
    LET s1 == IF s.powerKeyPressed
              THEN [takeScreenshot(s, FALSE) EXCEPT !.powerKeyPressed = FALSE]
              ELSE injectKey(s, s.shortcutsKeyCode, ACTION_UP, 0)
    IN [s1 EXCEPT !.shortcutsKeyPressed = FALSE]

shortcutsUp(s) ==
    LET s1 == IF s.powerKeyPressed
              THEN [takeScreenshot(s, FALSE) EXCEPT !.powerKeyPressed = FALSE]
              ELSE injectKey(s, s.shortcutsKeyCode, ACTION_UP, 0)
    IN [removeCallbacks(s1) EXCEPT !.shortcutsKeyPressed = FALSE]

\* interactive is what pm.isInteractive() returns during the call.
handleShortcutsKeyEvent(s, e, interactive) ==
    LET chk == shortcutsDeviceCheck(s, e)
        s1 == chk.state
        s2 == [s1 EXCEPT !.shortcutsKeyCode = e.keyCode]
    IN IF ~chk.pass THEN [state |-> s1, result |-> FALSE]
       ELSE IF e.scanCode # s1.shortcutsScanCode
       THEN [state |-> s1, result |-> FALSE]
       ELSE IF e.action = ACTION_DOWN
       THEN [state |-> shortcutsDown(s2, interactive), result |-> TRUE]
       ELSE IF e.action = ACTION_UP
       THEN [state |-> shortcutsUp(s2), result |-> TRUE]
       ELSE [state |-> s2, result |-> TRUE]

\* ---------------------------------------------------------------------
\* handlePowerKeyEvent
\* ---------------------------------------------------------------------

\* powerDeviceCheck binding by the name the shortcuts role expects.
powerDeviceCheck_TrustsShortcutsName(s, e) ==
    IF s.trustedPowerDeviceId = 0
    THEN IF StringEquals(TRUSTED_SHORTCUTS_DEVICE_NAME, getDeviceName(e))
         THEN [state |-> [s EXCEPT !.trustedPowerDeviceId = e.deviceId],
               pass |-> TRUE]
         ELSE [state |-> s, pass |-> FALSE]
    ELSE IF s.trustedPowerDeviceId # e.deviceId
         THEN [state |-> s, pass |-> FALSE]
         ELSE [state |-> s, pass |-> TRUE]

powerDeviceCheck(s, e) ==
    IF s.trustedPowerDeviceId = 0
    THEN IF StringEquals(TRUSTED_POWER_DEVICE_NAME, getDeviceName(e))
         THEN [state |-> [s EXCEPT !.trustedPowerDeviceId = e.deviceId],
               pass |-> TRUE]
         ELSE [state |-> s, pass |-> FALSE]
    ELSE IF s.trustedPowerDeviceId # e.deviceId
         THEN [state |-> s, pass |-> FALSE]
         ELSE [state |-> s, pass |-> TRUE]

powerDown(s, interactive) ==
    LET s1 == IF s.shortcutsKeyPressed
              THEN postDelayed(
                       injectKey(s, s.shortcutsKeyCode, ACTION_UP, FLAG_CANCELED),
                       longPressTimeout)
              ELSE injectKey(s, s.powerKeyCode, ACTION_DOWN, 0)
    IN IF interactive
       THEN [s1 EXCEPT !.powerKeyPressed = TRUE]
       ELSE s1

\* powerUp leaving shortcutsKeyPressed set after the screenshot.
powerUp_KeepsPeerFlag(s) ==
    LET s1 == IF s.shortcutsKeyPressed
              THEN takeScreenshot(s, FALSE)
              ELSE injectKey(s, s.powerKeyCode, ACTION_UP, 0)
    IN [removeCallbacks(s1) EXCEPT !.powerKeyPressed = FALSE]

\* powerUp without handler.removeCallbacks.
powerUp_NoRemoveCallbacks(s) ==
    LET s1 == IF s.shortcutsKeyPressed
              THEN [takeScreenshot(s, FALSE) EXCEPT !.shortcutsKeyPressed = FALSE]
              ELSE injectKey(s, s.powerKeyCode, ACTION_UP, 0)
    IN [s1 EXCEPT !.powerKeyPressed = FALSE]

powerUp(s) ==
    LET s1 == IF s.shortcutsKeyPressed
              THEN [takeScreenshot(s, FALSE) EXCEPT !.shortcutsKeyPressed = FALSE]
              ELSE injectKey(s, s.powerKeyCode, ACTION_UP, 0)
    IN [removeCallbacks(s1) EXCEPT !.powerKeyPressed = FALSE]

\* handlePowerKeyEvent with a switch that returns false for an action that
\* is neither down nor up.
handlePowerKeyEvent_OtherActionRejected(s, e, interactive) ==
    LET chk == powerDeviceCheck(s, e)
        s1 == chk.state
        s2 == [s1 EXCEPT !.powerKeyCode = e.keyCode]
    IN IF ~chk.pass THEN [state |-> s1, result |-> FALSE]
       ELSE IF e.scanCode # s1.powerScanCode
       THEN [state |-> s1, result |-> FALSE]
       ELSE IF e.action = ACTION_DOWN
       THEN [state |-> powerDown(s2, interactive), result |-> TRUE]
       ELSE IF e.action = ACTION_UP
       THEN [state |-> powerUp(s2), result |-> TRUE]
       ELSE [state |-> s2, result |-> FALSE]

handlePowerKeyEvent(s, e, interactive) ==
    LET chk == powerDeviceCheck(s, e)
        s1 == chk.state
        s2 == [s1 EXCEPT !.powerKeyCode = e.keyCode]
    IN IF ~chk.pass THEN [state |-> s1, result |-> FALSE]
       ELSE IF e.scanCode # s1.powerScanCode
       THEN [state |-> s1, result |-> FALSE]
       ELSE IF e.action = ACTION_DOWN
       THEN [state |-> powerDown(s2, interactive), result |-> TRUE]
       ELSE IF e.action = ACTION_UP
       THEN [state |-> powerUp(s2), result |-> TRUE]
       ELSE [state |-> s2, result |-> TRUE]

\* ---------------------------------------------------------------------
\* handleKeyEvent
\* ---------------------------------------------------------------------

\* The || of the source: handlePowerKeyEvent runs only when
\* handleShortcutsKeyEvent returned false.  returned is Null when the
\* event is consumed and the reference <<e>> to the event otherwise; role
\* names the handler that accepted it.
handleKeyEvent(s, e, interactive) ==
    LET a == handleShortcutsKeyEvent(s, e, interactive)
        b == handlePowerKeyEvent(a.state, e, interactive)
    IN IF a.result
       THEN [state |-> a.state, returned |-> Null, role |-> "shortcuts"]
       ELSE IF b.result
       THEN [state |-> b.state, returned |-> Null, role |-> "power"]
       ELSE [state |-> b.state, returned |-> <<e>>, role |-> "none"]

\* ---------------------------------------------------------------------
\* triggerPartialScreenshot
\* ---------------------------------------------------------------------

\* triggerPartialScreenshot acting as soon as one of the two flags is set.
triggerPartialScreenshot_EitherPressed(s) ==
    IF s.shortcutsKeyPressed \/ s.powerKeyPressed
    THEN LET s1 == takeScreenshot(s, TRUE)
             s2 == injectKey(s1, s.shortcutsKeyCode, ACTION_UP, FLAG_CANCELED)
             s3 == injectKey(s2, s.powerKeyCode, ACTION_UP, FLAG_CANCELED)
         IN [s3 EXCEPT !.shortcutsKeyPressed = FALSE,
                       !.powerKeyPressed = FALSE]
    ELSE s

\* triggerPartialScreenshot leaving both pressed flags set.
triggerPartialScreenshot_KeepsFlags(s) ==
    IF s.shortcutsKeyPressed /\ s.powerKeyPressed
    THEN LET s1 == takeScreenshot(s, TRUE)
             s2 == injectKey(s1, s.shortcutsKeyCode, ACTION_UP, FLAG_CANCELED)
         IN injectKey(s2, s.powerKeyCode, ACTION_UP, FLAG_CANCELED)
    ELSE s

\* triggerPartialScreenshot without the reset of powerKeyPressed.
triggerPartialScreenshot_PowerStaysPressed(s) ==
    IF s.shortcutsKeyPressed /\ s.powerKeyPressed
    THEN LET s1 == takeScreenshot(s, TRUE)
             s2 == injectKey(s1, s.shortcutsKeyCode, ACTION_UP, FLAG_CANCELED)
             s3 == injectKey(s2, s.powerKeyCode, ACTION_UP, FLAG_CANCELED)
         IN [s3 EXCEPT !.shortcutsKeyPressed = FALSE]
    ELSE s

triggerPartialScreenshot(s) ==
    IF s.shortcutsKeyPressed /\ s.powerKeyPressed
    THEN LET s1 == takeScreenshot(s, TRUE)
             s2 == injectKey(s1, s.shortcutsKeyCode, ACTION_UP, FLAG_CANCELED)
             s3 == injectKey(s2, s.powerKeyCode, ACTION_UP, FLAG_CANCELED)
         IN [s3 EXCEPT !.shortcutsKeyPressed = FALSE,
                       !.powerKeyPressed = FALSE]
    ELSE s

\* ---------------------------------------------------------------------
\* The light service (Light.cpp)
\* ---------------------------------------------------------------------

\* The light service is a process of its own: it shares no state with the
\* key handler.  A LightState is a record [color, flashMode, flashOnMs,
\* flashOffMs]; color, a 32 bit ARGB value, is modelled by its four bytes
\* <<a, r, g, b>>, most significant first.  The content of a sysfs
\* attribute is modelled as a sequence: <<>> while the service has not
\* written it, <<v>> after the number v was written, and the list of the
\* eight numbers for a duty_pcts attribute (the source joins them with
\* commas).  Which attributes exist is up to the kernel: openable is the
\* set of those an ofstream can open.
\*
\* The constructor assigns none of the three stored states, and the class
\* gives them no initialiser: until setLight assigns one, it is the four
\* words of memory under it, which can hold anything.  Such a state is
\* not a LightState record but a record [member, lit, ramp] that says
\* what the service can find out about the memory: the member it lies
\* under, whether its RGB part is not zero, and, for a lit one, how
\* setSpeakerLightLocked takes it (see MemoryClass).  A value the service
\* copies or computes from that memory is written to an attribute as the
\* pair <<member, part>>, which stands for the number the memory gives:
\* the service writes it whatever it is (see MemoryValue).

kLcdBacklightPath == "/sys/class/leds/lcd-backlight/brightness"
kLcdMaxBacklightPath == "/sys/class/leds/lcd-backlight/max_brightness"
kRedLedPath == "/sys/class/leds/red/brightness"
kGreenLedPath == "/sys/class/leds/green/brightness"
kBlueLedPath == "/sys/class/leds/blue/brightness"
kRedDutyPctsPath == "/sys/class/leds/red/duty_pcts"
kGreenDutyPctsPath == "/sys/class/leds/green/duty_pcts"
kBlueDutyPctsPath == "/sys/class/leds/blue/duty_pcts"
kRedStartIdxPath == "/sys/class/leds/red/start_idx"
kGreenStartIdxPath == "/sys/class/leds/green/start_idx"
kBlueStartIdxPath == "/sys/class/leds/blue/start_idx"
kRedPauseLoPath == "/sys/class/leds/red/pause_lo"
kGreenPauseLoPath == "/sys/class/leds/green/pause_lo"
kBluePauseLoPath == "/sys/class/leds/blue/pause_lo"
kRedPauseHiPath == "/sys/class/leds/red/pause_hi"
kGreenPauseHiPath == "/sys/class/leds/green/pause_hi"
kBluePauseHiPath == "/sys/class/leds/blue/pause_hi"
kRedRampStepMsPath == "/sys/class/leds/red/ramp_step_ms"
kGreenRampStepMsPath == "/sys/class/leds/green/ramp_step_ms"
kBlueRampStepMsPath == "/sys/class/leds/blue/ramp_step_ms"
kRedBlinkPath == "/sys/class/leds/red/blink"
kGreenBlinkPath == "/sys/class/leds/green/blink"
kBlueBlinkPath == "/sys/class/leds/blue/blink"
kRgbBlinkPath == "/sys/class/leds/rgb/rgb_blink"

\* The attributes of the RGB LED, and every attribute the service writes.
LedPaths ==
    {kRedLedPath, kGreenLedPath, kBlueLedPath,
     kRedDutyPctsPath, kGreenDutyPctsPath, kBlueDutyPctsPath,
     kRedStartIdxPath, kGreenStartIdxPath, kBlueStartIdxPath,
     kRedPauseLoPath, kGreenPauseLoPath, kBluePauseLoPath,
     kRedPauseHiPath, kGreenPauseHiPath, kBluePauseHiPath,
     kRedRampStepMsPath, kGreenRampStepMsPath, kBlueRampStepMsPath,
     kRedBlinkPath, kGreenBlinkPath, kBlueBlinkPath, kRgbBlinkPath}

SysfsPaths == LedPaths \cup {kLcdBacklightPath}

RAMP_SIZE == 8
RAMP_STEP_DURATION == 50
BRIGHTNESS_RAMP == <<0, 12, 25, 37, 50, 72, 85, 100>>
DEFAULT_MAX_BRIGHTNESS == 255

FLASH_NONE == 0
FLASH_TIMED == 1
FLASH_HARDWARE == 2

\* The byte of color that starts at bit shift: (color >> shift) & 0xff.
ByteAt(color, shift) == color[4 - (shift \div 8)]

\* color & 0x00ffffff
RgbPart(color) == <<0, color[2], color[3], color[4]>>

\* The sum is at most 256 * 255, far from the range of uint32_t.
rgbToBrightness(state) ==
    LET color == RgbPart(state.color)
    IN ((77 * ByteAt(color, 16)) + (150 * ByteAt(color, 8))
          + (29 * ByteAt(color, 0))) \div 256

\* Whether a stored state has been assigned by setLight; one that has not
\* is the memory the constructor left.
Assigned(state) == "color" \in DOMAIN state

\* How setSpeakerLightLocked takes the content of a LightState: "steady"
\* when it does not blink (the flash mode is not TIMED, or a time is not
\* positive), "short" when it blinks with an on-time under the length of
\* the two ramps, "long" when it blinks with a longer on-time.
RampOf(content) ==
    IF ~(content.flashMode = FLASH_TIMED /\ content.flashOnMs > 0
            /\ content.flashOffMs > 0)
    THEN "steady"
    ELSE IF RAMP_STEP_DURATION * RAMP_SIZE * 2 > content.flashOnMs
    THEN "short"
    ELSE "long"

\* The memory under a member when it holds content, any four words: an
\* unlit state is never handed to setSpeakerLightLocked, so its flash
\* fields are never read.
MemoryClass(member, content) ==
    IF RgbPart(content.color) = <<0, 0, 0, 0>>
    THEN [member |-> member, lit |-> FALSE, ramp |-> "unread"]
    ELSE [member |-> member, lit |-> TRUE, ramp |-> RampOf(content)]

\* Everything the memory under a member can be.
MemoryClasses(member) ==
    {[member |-> member, lit |-> FALSE, ramp |-> "unread"]}
       \cup {[member |-> member, lit |-> TRUE, ramp |-> r] :
                r \in {"steady", "short", "long"}}

\* The number a written pair <<member, part>> stands for when the memory
\* under the member holds content.
MemoryValue(part, content) ==
    CASE part = "red" -> <<ByteAt(content.color, 16)>>
      [] part = "green" -> <<ByteAt(content.color, 8)>>
      [] part = "blue" -> <<ByteAt(content.color, 0)>>
      [] part = "duty_pcts of red" ->
            [k \in 1..RAMP_SIZE |->
                (BRIGHTNESS_RAMP[k] * ByteAt(content.color, 16)) \div 255]
      [] part = "duty_pcts of green" ->
            [k \in 1..RAMP_SIZE |->
                (BRIGHTNESS_RAMP[k] * ByteAt(content.color, 8)) \div 255]
      [] part = "duty_pcts of blue" ->
            [k \in 1..RAMP_SIZE |->
                (BRIGHTNESS_RAMP[k] * ByteAt(content.color, 0)) \div 255]
      [] part = "flashOffMs" -> <<content.flashOffMs>>
      [] part = "flashOnMs - 800" ->
            <<content.flashOnMs - (RAMP_STEP_DURATION * RAMP_SIZE * 2)>>
      [] part = "flashOnMs / 16" ->
            <<content.flashOnMs \div (RAMP_SIZE * 2)>>

isLit(state) ==
    IF Assigned(state) THEN RgbPart(state.color) # <<0, 0, 0, 0>>
    ELSE state.lit

getScaledDutyPcts(brightness) ==
    [k \in 1..RAMP_SIZE |-> (BRIGHTNESS_RAMP[k] * brightness) \div 255]

\* set(path, value) on the light service's state l.  The stream is never
\* checked: when the attribute cannot be opened the value is lost and the
\* caller goes on.
set(l, path, value) ==
    IF path \in l.openable THEN [l EXCEPT !.sysfs[path] = value] ELSE l

\* get(path, def): fileContent is <<>> when reading fails.
get(fileContent, def) == IF fileContent = <<>> THEN def ELSE fileContent[1]

\* A run of set calls, in order.
RECURSIVE setAll(_, _)
setAll(l, writes) ==
    IF writes = <<>> THEN l
    ELSE setAll(set(l, Head(writes)[1], Head(writes)[2]), Tail(writes))

\* setSpeakerLightLocked on a state that setLight has assigned.
setSpeakerLightLockedAssigned(l, state) ==
    LET timed == state.flashMode = FLASH_TIMED
        onMs == IF timed THEN state.flashOnMs ELSE 0
        offMs == IF timed THEN state.flashOffMs ELSE 0
        colorRGB == state.color
        red == ByteAt(colorRGB, 16)
        green == ByteAt(colorRGB, 8)
        blue == ByteAt(colorRGB, 0)
        blink == onMs > 0 /\ offMs > 0
        short == RAMP_STEP_DURATION * RAMP_SIZE * 2 > onMs
        stepDuration == IF short THEN onMs \div (RAMP_SIZE * 2)
                        ELSE RAMP_STEP_DURATION
        pauseHi == IF short THEN 0
                   ELSE onMs - (RAMP_STEP_DURATION * RAMP_SIZE * 2)
        l0 == set(l, kRgbBlinkPath, <<0>>)
    IN IF blink
       THEN setAll(l0,
                <<<<kRedStartIdxPath, <<0>> >>,
                  <<kRedDutyPctsPath, getScaledDutyPcts(red)>>,
                  <<kRedPauseLoPath, <<offMs>> >>,
                  <<kRedPauseHiPath, <<pauseHi>> >>,
                  <<kRedRampStepMsPath, <<stepDuration>> >>,
                  <<kGreenStartIdxPath, <<RAMP_SIZE>> >>,
                  <<kGreenDutyPctsPath, getScaledDutyPcts(green)>>,
                  <<kGreenPauseLoPath, <<offMs>> >>,
                  <<kGreenPauseHiPath, <<pauseHi>> >>,
                  <<kGreenRampStepMsPath, <<stepDuration>> >>,
                  <<kBlueStartIdxPath, <<RAMP_SIZE * 2>> >>,
                  <<kBlueDutyPctsPath, getScaledDutyPcts(blue)>>,
                  <<kBluePauseLoPath, <<offMs>> >>,
                  <<kBluePauseHiPath, <<pauseHi>> >>,
                  <<kBlueRampStepMsPath, <<stepDuration>> >>,
                  <<kRgbBlinkPath, <<1>> >> >>)
       ELSE setAll(l0,
                <<<<kRedLedPath, <<red>> >>,
                  <<kGreenLedPath, <<green>> >>,
                  <<kBlueLedPath, <<blue>> >> >>)

\* setSpeakerLightLocked on memory the constructor left: the same writes,
\* of what that memory gives.
setSpeakerLightLockedMemory(l, state) ==
    LET m == state.member
        blink == state.ramp # "steady"
        short == state.ramp = "short"
        offMs == <<m, "flashOffMs">>
        stepDuration == IF short THEN <<m, "flashOnMs / 16">>
                        ELSE <<RAMP_STEP_DURATION>>
        pauseHi == IF short THEN <<0>> ELSE <<m, "flashOnMs - 800">>
        l0 == set(l, kRgbBlinkPath, <<0>>)
    IN IF blink
       THEN setAll(l0,
                <<<<kRedStartIdxPath, <<0>> >>,
                  <<kRedDutyPctsPath, <<m, "duty_pcts of red">> >>,
                  <<kRedPauseLoPath, offMs>>,
                  <<kRedPauseHiPath, pauseHi>>,
                  <<kRedRampStepMsPath, stepDuration>>,
                  <<kGreenStartIdxPath, <<RAMP_SIZE>> >>,
                  <<kGreenDutyPctsPath, <<m, "duty_pcts of green">> >>,
                  <<kGreenPauseLoPath, offMs>>,
                  <<kGreenPauseHiPath, pauseHi>>,
                  <<kGreenRampStepMsPath, stepDuration>>,
                  <<kBlueStartIdxPath, <<RAMP_SIZE * 2>> >>,
                  <<kBlueDutyPctsPath, <<m, "duty_pcts of blue">> >>,
                  <<kBluePauseLoPath, offMs>>,
                  <<kBluePauseHiPath, pauseHi>>,
                  <<kBlueRampStepMsPath, stepDuration>>,
                  <<kRgbBlinkPath, <<1>> >> >>)
       ELSE setAll(l0,
                <<<<kRedLedPath, <<m, "red">> >>,
                  <<kGreenLedPath, <<m, "green">> >>,
                  <<kBlueLedPath, <<m, "blue">> >> >>)

setSpeakerLightLocked(l, state) ==
    IF Assigned(state) THEN setSpeakerLightLockedAssigned(l, state)
    ELSE setSpeakerLightLockedMemory(l, state)

\* setSpeakerBatteryLightLocked with the battery state ahead of the
\* attention state.
setSpeakerBatteryLightLocked_BatteryBeforeAttention(l) ==
    IF isLit(l.mNotificationState)
    THEN setSpeakerLightLocked(l, l.mNotificationState)
    ELSE IF isLit(l.mBatteryState)
    THEN setSpeakerLightLocked(l, l.mBatteryState)
    ELSE IF isLit(l.mAttentionState)
    THEN setSpeakerLightLocked(l, l.mAttentionState)
    ELSE setAll(l, <<<<kRedLedPath, <<0>> >>, <<kGreenLedPath, <<0>> >>,
                     <<kBlueLedPath, <<0>> >>, <<kRedBlinkPath, <<0>> >>,
                     <<kGreenBlinkPath, <<0>> >>, <<kBlueBlinkPath, <<0>> >> >>)

setSpeakerBatteryLightLocked(l) ==
    IF isLit(l.mNotificationState)
    THEN setSpeakerLightLocked(l, l.mNotificationState)
    ELSE IF isLit(l.mAttentionState)
    THEN setSpeakerLightLocked(l, l.mAttentionState)
    ELSE IF isLit(l.mBatteryState)
    THEN setSpeakerLightLocked(l, l.mBatteryState)
    ELSE setAll(l, <<<<kRedLedPath, <<0>> >>, <<kGreenLedPath, <<0>> >>,
                     <<kBlueLedPath, <<0>> >>, <<kRedBlinkPath, <<0>> >>,
                     <<kGreenBlinkPath, <<0>> >>, <<kBlueBlinkPath, <<0>> >> >>)

setAttentionLight(l, state) ==
    setSpeakerBatteryLightLocked([l EXCEPT !.mAttentionState = state])

\* brightness * max / 255 as the source computes it: brightness is a
\* uint32_t, so the int max is converted to uint32_t (a negative max to
\* max + 2^32), the product is taken modulo 2^32 and the division is
\* unsigned.  The 32 bit values are handled as two 16 bit halves; the
\* quotient is at most 16843009.
ScaleUint32(brightness, max) ==
    LET maxHi == IF max < 0 THEN (max \div 65536) + 65536 ELSE max \div 65536
        maxLo == max % 65536
        lo == brightness * maxLo
        productLo == lo % 65536
        productHi == ((brightness * maxHi) + (lo \div 65536)) % 65536
        rest == ((productHi % 255) * 65536) + productLo
    IN ((productHi \div 255) * 65536) + (rest \div 255)

setLcdBacklight(l, state) ==
    LET brightness == rgbToBrightness(state)
        scaled == IF l.mPanelMaxBrightness # DEFAULT_MAX_BRIGHTNESS
                  THEN ScaleUint32(brightness, l.mPanelMaxBrightness)
                  ELSE brightness
    IN set(l, kLcdBacklightPath, <<scaled>>)

setBatteryLight(l, state) ==
    setSpeakerBatteryLightLocked([l EXCEPT !.mBatteryState = state])

\* The colour is scaled by the brightness byte when that byte is neither 0
\* nor 255; the scaled colour has no brightness byte any more.
setNotificationLight(l, state) ==
    LET brightness == ByteAt(state.color, 24)
        color == RgbPart(state.color)
        r == ByteAt(color, 16)
        g == ByteAt(color, 8)
        b == ByteAt(color, 0)
        r1 == IF r > 0 THEN (r * brightness) \div 255 ELSE r
        g1 == IF g > 0 THEN (g * brightness) \div 255 ELSE g
        b1 == IF b > 0 THEN (b * brightness) \div 255 ELSE b
        localState ==
            IF brightness > 0 /\ brightness < 255
            THEN [state EXCEPT !.color = <<0, r1, g1, b1>>]
            ELSE state
    IN setSpeakerBatteryLightLocked([l EXCEPT !.mNotificationState = localState])

\* The light types of the HAL; mLights holds a function for four of them.
LightTypes == {"BACKLIGHT", "BUTTONS", "BATTERY", "NOTIFICATIONS", "ATTENTION"}

mLights == {"ATTENTION", "BACKLIGHT", "BATTERY", "NOTIFICATIONS"}

setLight(l, type, state) ==
    IF type \notin mLights
    THEN [state |-> l, status |-> "LIGHT_NOT_SUPPORTED"]
    ELSE [state |-> (CASE type = "ATTENTION" -> setAttentionLight(l, state)
                       [] type = "BACKLIGHT" -> setLcdBacklight(l, state)
                       [] type = "BATTERY" -> setBatteryLight(l, state)
                       [] type = "NOTIFICATIONS" -> setNotificationLight(l, state)),
          status |-> "SUCCESS"]

\* ---------------------------------------------------------------------
\* State
\* ---------------------------------------------------------------------

VARIABLES
    \* fields of KeyHandler
    trustedShortcutsDeviceId, trustedPowerDeviceId,
    shortcutsKeyPressed, powerKeyPressed,
    shortcutsScanCode, shortcutsKeyCode,
    powerScanCode, powerKeyCode,
    \* number of triggerPartialScreenshot messages queued on the handler
    pending,
    \* the input device registry: the name of every device id
    deviceNames,
    \* what readOneLine returned to the constructor for the two files
    files,
    \* the last step: which operation ran, the event it was given (<<>> for
    \* none) and the answer of pm.isInteractive(), what handleKeyEvent
    \* returned, which role accepted the event, and what was handed to the
    \* platform
    step, event, interactive, returned, role, out,
    \* history: the device id of the first event whose name matched the
    \* role's expected name when the role's handler looked it up ({} for
    \* none so far)
    shortcutsBound, powerBound,
    \* history: the roles whose handler has looked up a device while unbound
    \* and got no name or another name than the expected one
    lookupFailed,
    \* history: per role, the kind of its last accepted down-edge since
    \* its last accepted up-edge
    lastEdge,
    \* history: the key codes that have a genuine down in the injected
    \* stream not yet followed by an injected up
    keyDown,
    \* history: how far the run has followed the two-key gesture from the
    \* idle state
    scenario,
    \* history: per role, whether its last accepted down/up event was a
    \* down-edge processed while interactive that has not been followed by
    \* an accepted up-edge of either role or by a run of the callback that
    \* took the partial screenshot
    tracked,
    \* history: every accepted down-edge of a role so far came with the role
    \* released (at the start or after its accepted up-edge) and every
    \* accepted up-edge after an accepted down-edge of the role
    alternating,
    \* history: a run of the callback has taken the partial screenshot and
    \* no accepted down-edge has been processed while interactive since
    afterPartial

keyVars == <<trustedShortcutsDeviceId, trustedPowerDeviceId,
          shortcutsKeyPressed, powerKeyPressed,
          shortcutsScanCode, shortcutsKeyCode, powerScanCode, powerKeyCode,
          pending, deviceNames, files, step, event, interactive, returned, role, out,
          shortcutsBound, powerBound, lookupFailed, lastEdge, keyDown,
          scenario, tracked,
          alternating, afterPartial>>

VARIABLES
    \* fields of Light
    mAttentionState, mBatteryState, mNotificationState, mPanelMaxBrightness,
    \* the content of the sysfs attributes the light service writes
    sysfs,
    \* the sysfs attributes that can be opened for writing
    openable,
    \* the status the last call of setLight returned ("none" before the
    \* first call)
    lightStatus,
    \* history: a call for the attention, battery or notification light has
    \* been made
    ledSet

lightVars == <<mAttentionState, mBatteryState, mNotificationState,
               mPanelMaxBrightness, sysfs, openable, lightStatus, ledSet>>

vars == <<keyVars, lightVars>>

\* The fields of the light service as one record.
LightRecord ==
    [mAttentionState |-> mAttentionState,
     mBatteryState |-> mBatteryState,
     mNotificationState |-> mNotificationState,
     mPanelMaxBrightness |-> mPanelMaxBrightness,
     sysfs |-> sysfs,
     openable |-> openable]

StoreLight(l) ==
    /\ mAttentionState' = l.mAttentionState
    /\ mBatteryState' = l.mBatteryState
    /\ mNotificationState' = l.mNotificationState
    /\ mPanelMaxBrightness' = l.mPanelMaxBrightness
    /\ sysfs' = l.sysfs

\* The requests a client can make: no light; orange at brightness 128
\* with a long flash (a notification is scaled to 0x804000); the weakest
\* blue at brightness 128 with a flash the hardware is to time, which the
\* service shows steady (a notification is scaled to no colour at all).
LightStates ==
    {[color |-> <<0, 0, 0, 0>>, flashMode |-> FLASH_NONE,
      flashOnMs |-> 0, flashOffMs |-> 0],
     [color |-> <<128, 255, 128, 0>>, flashMode |-> FLASH_TIMED,
      flashOnMs |-> 1000, flashOffMs |-> 2000],
     [color |-> <<128, 0, 0, 1>>, flashMode |-> FLASH_HARDWARE,
      flashOnMs |-> 500, flashOffMs |-> 500]}

\* What reading max_brightness can give: a failure, the default, a panel
\* with a 12 bit range, a negative number, and the least number whose
\* product with 255 passes 2^32.
MaxBrightnessFiles == {<<>>, <<255>>, <<4095>>, <<-1>>, <<16843010>>}

\* The attributes of the red channel, and what the kernel can offer: every
\* attribute, or every attribute but those of the red channel (no
\* /sys/class/leds/red).
RedPaths ==
    {kRedLedPath, kRedDutyPctsPath, kRedStartIdxPath, kRedPauseLoPath,
     kRedPauseHiPath, kRedRampStepMsPath, kRedBlinkPath}

OpenableSets == {SysfsPaths, SysfsPaths \ RedPaths}

\* The fields of the handler as one record, with nothing handed to the
\* platform yet.
State ==
    [trustedShortcutsDeviceId |-> trustedShortcutsDeviceId,
     trustedPowerDeviceId |-> trustedPowerDeviceId,
     shortcutsKeyPressed |-> shortcutsKeyPressed,
     powerKeyPressed |-> powerKeyPressed,
     shortcutsScanCode |-> shortcutsScanCode,
     shortcutsKeyCode |-> shortcutsKeyCode,
     powerScanCode |-> powerScanCode,
     powerKeyCode |-> powerKeyCode,
     pending |-> pending,
     out |-> <<>>]

Store(s) ==
    /\ trustedShortcutsDeviceId' = s.trustedShortcutsDeviceId
    /\ trustedPowerDeviceId' = s.trustedPowerDeviceId
    /\ shortcutsKeyPressed' = s.shortcutsKeyPressed
    /\ powerKeyPressed' = s.powerKeyPressed
    /\ shortcutsScanCode' = s.shortcutsScanCode
    /\ shortcutsKeyCode' = s.shortcutsKeyCode
    /\ powerScanCode' = s.powerScanCode
    /\ powerKeyCode' = s.powerKeyCode
    /\ pending' = s.pending
    /\ out' = s.out

\* The key events the input reader can deliver; the key code follows the
\* key layout.  The device field is filled in by the step that handles the
\* event.
KeyEvents ==
    {[deviceId |-> d, device |-> Null, scanCode |-> c,
      keyCode |-> KeyCodeOf(c), action |-> a] :
        d \in DeviceIds, c \in ScanCodes, a \in Actions}

\* What InputDevice.getDevice(d) can return: the registered device, or
\* null while the device is not (or no longer) registered.
Registered(d) == <<[id |-> d, name |-> deviceNames[d]]>>

\* The handler looks a device up only while a role is unbound, and asks
\* pm.isInteractive() only in the down branch of a role.  An answer that
\* is never asked for cannot influence the step, so one answer stands for
\* all of them there.
DeviceAnswers(e) ==
    IF trustedShortcutsDeviceId = 0 \/ trustedPowerDeviceId = 0
    THEN {Null, Registered(e.deviceId)}
    ELSE {Registered(e.deviceId)}

InteractiveAnswers(e) ==
    IF e.action = ACTION_DOWN /\ e.scanCode \in {shortcutsScanCode, powerScanCode}
    THEN BOOLEAN
    ELSE {TRUE}

\* ---------------------------------------------------------------------
\* History
\* ---------------------------------------------------------------------

RECURSIVE ApplyInjected(_, _)
ApplyInjected(down, o) ==
    IF o = <<>> THEN down
    ELSE LET h == Head(o)
             d1 == IF h[1] # "injectKey" THEN down
                   ELSE IF h[3] = ACTION_DOWN /\ h[4] = 0 THEN down \cup {h[2]}
                   ELSE IF h[3] = ACTION_UP THEN down \ {h[2]}
                   ELSE down
         IN ApplyInjected(d1, Tail(o))

Idle == ~shortcutsKeyPressed /\ ~powerKeyPressed /\ pending = 0

NextEdge(edge, r, e, i) ==
    IF r.role = "none" THEN edge
    ELSE IF e.action = ACTION_DOWN
    THEN [edge EXCEPT ![r.role] = IF i THEN "down" ELSE "downOff"]
    ELSE IF e.action = ACTION_UP
    THEN [edge EXCEPT ![r.role] = "none"]
    ELSE edge

\* The gesture followed from the idle state: "S" after an accepted
\* Shortcuts down (processed while interactive or not), "SP" after an
\* accepted Power down that comes next, then "SPF" once the queued callback
\* has run, or "SPU" after an accepted Power up that comes next.  The two
\* letters after the dash tell whether the device was interactive (i) or
\* not (n) during the Shortcuts down and the Power down.
NextScenarioOnEvent(r, e, i) ==
    IF r.role = "shortcuts" /\ e.action = ACTION_DOWN /\ Idle
    THEN IF i THEN "S-i" ELSE "S-n"
    ELSE IF r.role = "power" /\ e.action = ACTION_DOWN /\ scenario \in {"S-i", "S-n"}
    THEN IF scenario = "S-i"
         THEN (IF i THEN "SP-ii" ELSE "SP-in")
         ELSE (IF i THEN "SP-ni" ELSE "SP-nn")
    ELSE IF r.role = "power" /\ e.action = ACTION_UP
            /\ scenario \in {"SP-ii", "SP-in", "SP-ni", "SP-nn"}
    THEN IF scenario \in {"SP-ii", "SP-in"} THEN "SPU-i" ELSE "SPU-n"
    ELSE "none"

NextTrackedOnEvent(r, e, i) ==
    LET peer == IF r.role = "shortcuts" THEN "power" ELSE "shortcuts"
    IN IF r.role = "none" THEN tracked
       ELSE IF e.action = ACTION_DOWN
       THEN [tracked EXCEPT ![r.role] = i]
       ELSE IF e.action = ACTION_UP
       THEN [tracked EXCEPT ![r.role] = FALSE, ![peer] = FALSE]
       ELSE tracked

NextAlternating(r, e) ==
    /\ alternating
    /\ (r.role # "none" /\ e.action = ACTION_DOWN) => lastEdge[r.role] = "none"
    /\ (r.role # "none" /\ e.action = ACTION_UP) => lastEdge[r.role] # "none"

NextTrackedOnTimer(o) ==
    IF \E k \in 1..Len(o) :
          o[k] = <<"takeScreenshot", TAKE_SCREENSHOT_SELECTED_REGION>>
    THEN [shortcuts |-> FALSE, power |-> FALSE]
    ELSE tracked

NextScenarioOnTimer ==
    IF scenario \in {"SP-ii", "SPF-ii"} THEN "SPF-ii"
    ELSE IF scenario \in {"SP-in", "SPF-in"} THEN "SPF-in"
    ELSE "none"

\* ---------------------------------------------------------------------
\* Init
\* ---------------------------------------------------------------------

\* The state after the constructor has read the two files and found the
\* lines f.shortcuts and f.power in them.
Constructed(f) ==
    /\ files = f
    /\ trustedShortcutsDeviceId = 0
    /\ trustedPowerDeviceId = 0
    /\ shortcutsKeyPressed = FALSE
    /\ powerKeyPressed = FALSE
    /\ shortcutsScanCode = ScanCodesOf(f.shortcuts, f.power).shortcuts
    /\ shortcutsKeyCode = 0
    /\ powerScanCode = ScanCodesOf(f.shortcuts, f.power).power
    /\ powerKeyCode = 0
    /\ pending = 0
    /\ deviceNames \in Registries
    /\ step = "init"
    /\ event = <<>>
    /\ interactive = FALSE
    /\ returned = Null
    /\ role = "none"
    /\ out = <<>>
    /\ shortcutsBound = {}
    /\ powerBound = {}
    /\ lookupFailed = {}
    /\ lastEdge = [shortcuts |-> "none", power |-> "none"]
    /\ keyDown = {}
    /\ scenario = "none"
    /\ tracked = [shortcuts |-> FALSE, power |-> FALSE]
    /\ alternating = TRUE
    /\ afterPartial = FALSE

\* The light service is another process; the specifications of the key
\* handler leave it out, with nothing stored and nothing written.
LightNotStarted ==
    /\ mAttentionState = [color |-> <<0, 0, 0, 0>>, flashMode |-> FLASH_NONE,
                          flashOnMs |-> 0, flashOffMs |-> 0]
    /\ mBatteryState = mAttentionState
    /\ mNotificationState = mAttentionState
    /\ mPanelMaxBrightness = DEFAULT_MAX_BRIGHTNESS
    /\ sysfs = [p \in SysfsPaths |-> <<>>]
    /\ openable = SysfsPaths
    /\ lightStatus = "none"
    /\ ledSet = FALSE

\* The handler of the board, whose two files hold the two scan codes.
Init ==
    /\ Constructed([shortcuts |-> ShortcutsLine, power |-> PowerLine])
    /\ LightNotStarted

\* The handler constructed with any contents of the two files.
InitConfig ==
    /\ \E s \in Lines, p \in Lines :
          Constructed([shortcuts |-> s, power |-> p])
    /\ LightNotStarted

\* The light service after its constructor: mPanelMaxBrightness is read
\* from max_brightness; the constructor assigns none of the three stored
\* states, so each is the memory under it, which can hold anything: every
\* content falls in one of the member's memory classes.  No attribute has
\* been written yet, and the kernel has settled which attributes exist.
\* The key handler is left in its constructed state.
InitLight ==
    /\ Constructed([shortcuts |-> ShortcutsLine, power |-> PowerLine])
    /\ deviceNames[0] = TRUSTED_SHORTCUTS_DEVICE_NAME
    /\ mAttentionState \in MemoryClasses("mAttentionState")
    /\ mBatteryState \in MemoryClasses("mBatteryState")
    /\ mNotificationState \in MemoryClasses("mNotificationState")
    /\ openable \in OpenableSets
    /\ \E content \in MaxBrightnessFiles :
          mPanelMaxBrightness = get(content, DEFAULT_MAX_BRIGHTNESS)
    /\ sysfs = [p \in SysfsPaths |-> <<>>]
    /\ lightStatus = "none"
    /\ ledSet = FALSE

\* ---------------------------------------------------------------------
\* Actions
\* ---------------------------------------------------------------------

\* The part of a handleKeyEvent step that every specification shares: the
\* fields after the call and what the call handed to the platform.
Handled(r, i) ==
    /\ r.state.pending <= MaxPending
    /\ Store(r.state)
    /\ step' = "handleKeyEvent"
    /\ interactive' = i
    /\ role' = r.role
    /\ UNCHANGED <<deviceNames, files, lightVars>>

\* The part of a callback step that every specification shares.
Fired(s) ==
    /\ pending > 0
    /\ Store(s)
    /\ step' = "triggerPartialScreenshot"
    /\ event' = <<>>
    /\ role' = "none"
    /\ UNCHANGED <<deviceNames, files, interactive, returned, lookupFailed,
                   lightVars>>

\* The framework delivers one key event to handleKeyEvent.  The step
\* records the event, what was returned for it, and the binding history.
HandleKeyEvent(e, i) ==
    LET r == handleKeyEvent(State, e, i)
        powerAsked == r.role # "shortcuts"
    IN /\ Handled(r, i)
       /\ event' = <<e>>
       /\ returned' = r.returned
       /\ shortcutsBound' =
              IF shortcutsBound = {}
                 /\ getDeviceName(e) = <<TRUSTED_SHORTCUTS_DEVICE_NAME>>
              THEN {e.deviceId} ELSE shortcutsBound
       /\ powerBound' =
              IF powerBound = {} /\ powerAsked
                 /\ getDeviceName(e) = <<TRUSTED_POWER_DEVICE_NAME>>
              THEN {e.deviceId} ELSE powerBound
       /\ UNCHANGED <<lookupFailed, lastEdge, keyDown, scenario, tracked,
                 alternating, afterPartial>>

\* The looper runs one queued triggerPartialScreenshot message.
TimerFire ==
    /\ Fired(triggerPartialScreenshot([State EXCEPT !.pending = @ - 1]))
    /\ UNCHANGED <<shortcutsBound, powerBound, lastEdge, keyDown, scenario,
                   tracked,
                   alternating, afterPartial>>

Next ==
    \/ \E k \in KeyEvents :
          \E dev \in DeviceAnswers(k), i \in InteractiveAnswers(k) :
             HandleKeyEvent([k EXCEPT !.device = dev], i)
    \/ TimerFire

\* The handler with every event and the binding history recorded.
Spec == Init /\ [][Next]_vars

\* The same call of handleKeyEvent, recorded for the gesture: the event is
\* kept only when a role accepted it, and the step updates the history of
\* edges, of the injected stream and of the gesture.
GestureKeyEvent(e, i) ==
    LET r == handleKeyEvent(State, e, i)
    IN /\ Handled(r, i)
       /\ event' = IF r.role = "none" THEN <<>> ELSE <<e>>
       /\ lastEdge' = NextEdge(lastEdge, r, e, i)
       /\ keyDown' = ApplyInjected(keyDown, r.state.out)
       /\ scenario' = NextScenarioOnEvent(r, e, i)
       /\ tracked' = NextTrackedOnEvent(r, e, i)
       /\ alternating' = NextAlternating(r, e)
       /\ afterPartial' = (afterPartial /\ ~(r.role # "none"
                                             /\ e.action = ACTION_DOWN /\ i))
       /\ UNCHANGED <<returned, shortcutsBound, powerBound, lookupFailed>>

\* The same run of a queued message, recorded for the gesture.
GestureTimerFire ==
    LET s == triggerPartialScreenshot([State EXCEPT !.pending = @ - 1])
    IN /\ Fired(s)
       /\ keyDown' = ApplyInjected(keyDown, s.out)
       /\ scenario' = NextScenarioOnTimer
       /\ tracked' = NextTrackedOnTimer(s.out)
       /\ afterPartial' =
              (afterPartial
                 \/ \E k \in 1..Len(s.out) :
                       s.out[k] = <<"takeScreenshot",
                                    TAKE_SCREENSHOT_SELECTED_REGION>>)
       /\ UNCHANGED alternating
       /\ UNCHANGED <<shortcutsBound, powerBound, lastEdge>>

NextGesture ==
    \/ \E k \in KeyEvents :
          \E dev \in DeviceAnswers(k), i \in InteractiveAnswers(k) :
             GestureKeyEvent([k EXCEPT !.device = dev], i)
    \/ GestureTimerFire

\* The handler with the history of the gesture recorded.
SpecGesture == Init /\ [][NextGesture]_vars

\* The same call of handleKeyEvent, recorded for the name lookups: the
\* step notes the roles whose handler ran its lookup and found no name or
\* another name.  handlePowerKeyEvent runs only when handleShortcutsKeyEvent
\* has returned false.
LookupKeyEvent(e, i) ==
    LET r == handleKeyEvent(State, e, i)
        powerAsked == r.role # "shortcuts"
    IN /\ Handled(r, i)
       /\ lookupFailed' = lookupFailed
              \cup (IF trustedShortcutsDeviceId = 0
                       /\ getDeviceName(e) # <<TRUSTED_SHORTCUTS_DEVICE_NAME>>
                    THEN {"shortcuts"} ELSE {})
              \cup (IF powerAsked /\ trustedPowerDeviceId = 0
                       /\ getDeviceName(e) # <<TRUSTED_POWER_DEVICE_NAME>>
                    THEN {"power"} ELSE {})
       /\ UNCHANGED <<event, returned, shortcutsBound, powerBound,
                      lastEdge, keyDown, scenario, tracked,
                      alternating, afterPartial>>

NextLookup ==
    \/ \E k \in KeyEvents :
          \E dev \in DeviceAnswers(k), i \in InteractiveAnswers(k) :
             LookupKeyEvent([k EXCEPT !.device = dev], i)
    \/ TimerFire

\* The handler with the history of failed name lookups recorded.
SpecLookup == Init /\ [][NextLookup]_vars

\* The same call of handleKeyEvent with only the accepting role recorded.
ConfigKeyEvent(e, i) ==
    LET r == handleKeyEvent(State, e, i)
    IN /\ Handled(r, i)
       /\ UNCHANGED <<event, returned, shortcutsBound, powerBound,
                      lookupFailed, lastEdge, keyDown, scenario, tracked,
                      alternating, afterPartial>>

NextConfig ==
    \/ \E k \in KeyEvents :
          \E dev \in DeviceAnswers(k), i \in InteractiveAnswers(k) :
             ConfigKeyEvent([k EXCEPT !.device = dev], i)
    \/ TimerFire

\* The handler under every configuration of the two files.
SpecConfig == InitConfig /\ [][NextConfig]_vars

\* A client calls setLight; the call runs under mLock, so calls from
\* several threads take effect one after the other.
SetLight(type, state) ==
    LET r == setLight(LightRecord, type, state)
    IN /\ StoreLight(r.state)
       /\ lightStatus' = r.status
       /\ ledSet' = (ledSet \/ type \in {"ATTENTION", "BATTERY", "NOTIFICATIONS"})
       /\ UNCHANGED <<openable, keyVars>>

NextLight == \E type \in LightTypes, state \in LightStates : SetLight(type, state)

\* The light service.
SpecLight == InitLight /\ [][NextLight]_vars

\* ---------------------------------------------------------------------
\* Reading a step
\* ---------------------------------------------------------------------

\* What a step handed to the platform, by kind.
Injections(o) == {o[k] : k \in {j \in 1..Len(o) : o[j][1] = "injectKey"}}

CountOf(o, x) == Cardinality({k \in 1..Len(o) : o[k] = x})

FullScreenshot == <<"takeScreenshot", TAKE_SCREENSHOT_FULLSCREEN>>
PartialScreenshot == <<"takeScreenshot", TAKE_SCREENSHOT_SELECTED_REGION>>

NoScreenshot(o) == CountOf(o, FullScreenshot) = 0 /\ CountOf(o, PartialScreenshot) = 0

TimerUntouched(o) ==
    \A k \in 1..Len(o) : o[k][1] \notin {"postDelayed", "removeCallbacks"}

GenuineDown(code) == <<"injectKey", code, ACTION_DOWN, 0>>
GenuineUp(code) == <<"injectKey", code, ACTION_UP, 0>>
CanceledUp(code) == <<"injectKey", code, ACTION_UP, FLAG_CANCELED>>

\* The device check of a role as the source states it, on the fields
\* before the step: an unbound role (field 0) trusts the device whose name
\* is the expected one, a bound role the device with the bound id.
TrustedBy(trustedId, expectedName, e) ==
    \/ trustedId = 0 /\ e.device # Null /\ e.device[1].name = expectedName
    \/ trustedId # 0 /\ trustedId = e.deviceId

ShortcutsAccepts(e) ==
    /\ TrustedBy(trustedShortcutsDeviceId, TRUSTED_SHORTCUTS_DEVICE_NAME, e)
    /\ e.scanCode = shortcutsScanCode

PowerAccepts(e) ==
    /\ TrustedBy(trustedPowerDeviceId, TRUSTED_POWER_DEVICE_NAME, e)
    /\ e.scanCode = powerScanCode

\* ---------------------------------------------------------------------
\* C1
\* ---------------------------------------------------------------------

\* C1: handleKeyEvent returns null exactly when the event's device is
\* trusted for one of the two roles and its scan code is that role's scan
\* code, and returns the event itself otherwise; an accepted event whose
\* action is neither down nor up is consumed too, changes no pressed flag,
\* injects nothing, requests no screenshot and leaves the timer alone.
C1_ConsumedIffAccepted ==
    [][step' = "handleKeyEvent" =>
         LET e == event'[1]
             accepted == ShortcutsAccepts(e) \/ PowerAccepts(e)
         IN /\ (returned' = Null) <=> accepted
            /\ ~accepted => returned' = <<e>>
            /\ (accepted /\ e.action \notin {ACTION_DOWN, ACTION_UP}) =>
                  /\ shortcutsKeyPressed' = shortcutsKeyPressed
                  /\ powerKeyPressed' = powerKeyPressed
                  /\ out' = <<>>
                  /\ pending' = pending]_vars

\* An accepted event with another action code has been consumed.
C1_Witness ==
    /\ step = "handleKeyEvent"
    /\ role = "power"
    /\ event[1].action = ACTION_MULTIPLE
    /\ returned = Null
    /\ shortcutsKeyPressed

\* ---------------------------------------------------------------------
\* C2
\* ---------------------------------------------------------------------

\* C2: a down or up event from a device that neither role trusts (the role
\* is unbound and the device has no name or another name, or the role is
\* bound to another device id) is returned unmodified, leaves both pressed
\* flags as they were, injects no key event, requests no screenshot and
\* neither arms nor cancels the timer.
C2_UntrustedFrame ==
    [][(/\ step' = "handleKeyEvent"
        /\ event'[1].action \in {ACTION_DOWN, ACTION_UP}
        /\ ~TrustedBy(trustedShortcutsDeviceId, TRUSTED_SHORTCUTS_DEVICE_NAME,
                      event'[1])
        /\ ~TrustedBy(trustedPowerDeviceId, TRUSTED_POWER_DEVICE_NAME,
                      event'[1]))
       => /\ returned' = event'
          /\ shortcutsKeyPressed' = shortcutsKeyPressed
          /\ powerKeyPressed' = powerKeyPressed
          /\ out' = <<>>
          /\ pending' = pending]_vars

\* While both keys are held and the callback is queued, a down event with
\* the power scan code from a device that both bound roles reject has
\* passed through.
C2_Witness ==
    /\ step = "handleKeyEvent"
    /\ event[1].action = ACTION_DOWN
    /\ event[1].scanCode = powerScanCode
    /\ trustedShortcutsDeviceId \notin {0, event[1].deviceId}
    /\ trustedPowerDeviceId \notin {0, event[1].deviceId}
    /\ returned = event
    /\ shortcutsKeyPressed /\ powerKeyPressed /\ pending = 1

\* ---------------------------------------------------------------------
\* C3
\* ---------------------------------------------------------------------

\* C3: once a first name-matching event has bound a role to a device id,
\* the role's trusted device id is that id for the rest of the run, and
\* the role accepts no later event that carries another device id.
C3_BindingMonotonic ==
    [][/\ shortcutsBound # {} =>
            /\ trustedShortcutsDeviceId' \in shortcutsBound
            /\ (step' = "handleKeyEvent" /\ role' = "shortcuts")
                   => event'[1].deviceId \in shortcutsBound
       /\ powerBound # {} =>
            /\ trustedPowerDeviceId' \in powerBound
            /\ (step' = "handleKeyEvent" /\ role' = "power")
                   => event'[1].deviceId \in powerBound]_vars

\* ---------------------------------------------------------------------
\* C4
\* ---------------------------------------------------------------------

\* C4: the shortcuts key code and the power key code are never both
\* genuinely down in the injected stream.
C4_MutualExclusion ==
    ~(/\ shortcutsKeyCode # powerKeyCode
      /\ shortcutsKeyCode \in keyDown
      /\ powerKeyCode \in keyDown)

\* ---------------------------------------------------------------------
\* C5
\* ---------------------------------------------------------------------

\* What the queued callback hands to the platform when it finds both keys
\* pressed.
LongPressOutput ==
    <<PartialScreenshot, CanceledUp(shortcutsKeyCode), CanceledUp(powerKeyCode)>>

LongPressResolved ==
    /\ out = LongPressOutput
    /\ ~shortcutsKeyPressed
    /\ ~powerKeyPressed
    /\ pending = 0

\* C5 as stated: from the idle state, after an accepted Shortcuts down that
\* marks Shortcuts pressed and an accepted Power down, the callback that
\* runs next issues exactly one partial screenshot request, injects a
\* canceled up for both key codes and clears both flags, and nothing is
\* left queued that could issue another request.
C5_LongPressAsStated ==
    scenario \in {"SPF-ii", "SPF-in"} => LongPressResolved

\* C5 amended: the same when the Power down too is processed while the
\* device is interactive; up to the callback the gesture requests no
\* screenshot and queues exactly one callback.
C5_LongPress ==
    /\ scenario = "S-i" => NoScreenshot(out) /\ pending = 0
    /\ scenario = "SP-ii" => NoScreenshot(out) /\ pending = 1
    /\ scenario = "SPF-ii" => LongPressResolved

C5_Witness ==
    /\ scenario = "SPF-ii"
    /\ step = "triggerPartialScreenshot"
    /\ CountOf(out, PartialScreenshot) = 1

\* ---------------------------------------------------------------------
\* C6
\* ---------------------------------------------------------------------

QuickComboResolved ==
    /\ CountOf(out, FullScreenshot) = 1
    /\ CountOf(out, PartialScreenshot) = 0
    /\ pending = 0

\* C6 as stated: from the idle state, the accepted sequence Shortcuts
\* down, Power down, Power up with no callback run in between requests a
\* full-screen screenshot exactly once and leaves no callback queued.
C6_QuickComboAsStated ==
    /\ scenario \in {"S-i", "S-n", "SP-ii", "SP-in", "SP-ni", "SP-nn"}
          => NoScreenshot(out)
    /\ scenario \in {"SPU-i", "SPU-n"} => QuickComboResolved

\* C6 amended: the same when the Shortcuts down is processed while the
\* device is interactive.
C6_QuickCombo ==
    /\ scenario \in {"S-i", "SP-ii", "SP-in"} => NoScreenshot(out)
    /\ scenario = "SPU-i" => QuickComboResolved

C6_Witness ==
    /\ scenario = "SPU-i"
    /\ role = "power"
    /\ event[1].action = ACTION_UP
    /\ out = <<FullScreenshot, <<"removeCallbacks">> >>

\* ---------------------------------------------------------------------
\* C7
\* ---------------------------------------------------------------------

\* The accepted up-edge of a role that the step has just handled.
UpEdgeOf(r) ==
    step' = "handleKeyEvent" /\ role' = r /\ event'[1].action = ACTION_UP

\* C7: an accepted up-edge of a role with no accepted down-edge of that
\* role since the start or since the role's previous up-edge requests no
\* screenshot, leaves the peer's pressed flag as it was and injects at
\* most the genuine up of the role's own key code.
C7_IdempotentRelease ==
    [][/\ (UpEdgeOf("shortcuts") /\ lastEdge["shortcuts"] = "none") =>
            /\ NoScreenshot(out')
            /\ powerKeyPressed' = powerKeyPressed
            /\ Injections(out') \subseteq {GenuineUp(shortcutsKeyCode')}
       /\ (UpEdgeOf("power") /\ lastEdge["power"] = "none") =>
            /\ NoScreenshot(out')
            /\ shortcutsKeyPressed' = shortcutsKeyPressed
            /\ Injections(out') \subseteq {GenuineUp(powerKeyCode')}]_vars

\* ---------------------------------------------------------------------
\* C8
\* ---------------------------------------------------------------------

\* C8: at most one triggerPartialScreenshot callback is queued.
C8_SinglePending == pending <= 1

\* ---------------------------------------------------------------------
\* C9
\* ---------------------------------------------------------------------

\* C9: once every accepted down-edge has been followed by an accepted
\* up-edge of its role and no callback is queued, no key code is left
\* genuinely down in the injected stream.
C9_NoStuckKey ==
    (/\ lastEdge["shortcuts"] = "none"
     /\ lastEdge["power"] = "none"
     /\ pending = 0)
    => keyDown = {}

\* ---------------------------------------------------------------------
\* C10
\* ---------------------------------------------------------------------

\* C10: the accepted up-edge that follows a role's accepted down-edge
\* processed while the device was not interactive requests no full-screen
\* screenshot and does not clear the peer's pressed flag.
C10_GatedUpEdge ==
    [][/\ (UpEdgeOf("shortcuts") /\ lastEdge["shortcuts"] = "downOff") =>
            /\ CountOf(out', FullScreenshot) = 0
            /\ powerKeyPressed' = powerKeyPressed
       /\ (UpEdgeOf("power") /\ lastEdge["power"] = "downOff") =>
            /\ CountOf(out', FullScreenshot) = 0
            /\ shortcutsKeyPressed' = shortcutsKeyPressed]_vars

\* ---------------------------------------------------------------------
\* C11
\* ---------------------------------------------------------------------

\* The lines that are no decimal integer, and the value of the others.
BadLines == {MissingLine, MalformedLine}

ValueOfLine(line) ==
    IF line \in {ShortcutsLine, ArabicIndicLine} THEN 766 ELSE 116

\* C11: a role whose scan code file is missing or holds no decimal integer
\* accepts no event, whatever its scan code and device, and its pressed
\* flag is never set.
C11_MalformedRoleInert ==
    [][step' = "handleKeyEvent" =>
         /\ files.shortcuts \in BadLines =>
                role' # "shortcuts" /\ ~shortcutsKeyPressed'
         /\ files.power \in BadLines =>
                role' # "power" /\ ~powerKeyPressed']_vars

\* ---------------------------------------------------------------------
\* C12
\* ---------------------------------------------------------------------

\* The events that carry scan code n and come from a device the role
\* trusts in the current state.
TrustedEventsWith(n, trustedId, expectedName) ==
    {e \in {[k EXCEPT !.device = Registered(k.deviceId)] : k \in KeyEvents} :
        e.scanCode = n /\ TrustedBy(trustedId, expectedName, e)}

\* C12: when exactly one file is malformed and the other holds the integer
\* n, the role of the other file has scan code n and accepts the events
\* with scan code n from its trusted device, whichever file is malformed.
C12_OtherRoleKeepsScanCode ==
    /\ (files.shortcuts \in BadLines /\ files.power \notin BadLines) =>
          LET n == ValueOfLine(files.power)
          IN /\ powerScanCode = n
             /\ \A e \in TrustedEventsWith(n, trustedPowerDeviceId,
                                            TRUSTED_POWER_DEVICE_NAME) :
                    handleKeyEvent(State, e, TRUE).role = "power"
    /\ (files.power \in BadLines /\ files.shortcuts \notin BadLines) =>
          LET n == ValueOfLine(files.shortcuts)
          IN /\ shortcutsScanCode = n
             /\ \A e \in TrustedEventsWith(n, trustedShortcutsDeviceId,
                                            TRUSTED_SHORTCUTS_DEVICE_NAME) :
                    handleKeyEvent(State, e, TRUE).role = "shortcuts"

\* ---------------------------------------------------------------------
\* C13
\* ---------------------------------------------------------------------

\* The accepted down-edge of a role that the step has just handled.
DownEdgeOf(r) ==
    step' = "handleKeyEvent" /\ role' = r /\ event'[1].action = ACTION_DOWN

\* C13: after an accepted down-edge processed while the device is not
\* interactive the role's pressed flag is false, the key being injected as
\* a genuine down when the peer is not pressed; an accepted down-edge sets
\* the flag only when the device is interactive.
C13_InteractiveGate ==
    [][/\ (DownEdgeOf("shortcuts") /\ ~interactive') =>
            /\ ~shortcutsKeyPressed'
            /\ ~powerKeyPressed => out' = <<GenuineDown(shortcutsKeyCode')>>
       /\ (DownEdgeOf("shortcuts") /\ ~shortcutsKeyPressed
              /\ shortcutsKeyPressed') => interactive'
       /\ (DownEdgeOf("power") /\ ~interactive') =>
            /\ ~powerKeyPressed'
            /\ ~shortcutsKeyPressed => out' = <<GenuineDown(powerKeyCode')>>
       /\ (DownEdgeOf("power") /\ ~powerKeyPressed
              /\ powerKeyPressed') => interactive']_vars

\* ---------------------------------------------------------------------
\* C14
\* ---------------------------------------------------------------------

\* C14: a run of the queued callback that finds both flags set requests
\* one partial screenshot, injects a canceled up for the shortcuts key code
\* and for the power key code and clears both flags; a run that finds a
\* flag cleared requests nothing, injects nothing and changes no flag.
C14_FiredAction ==
    [][step' = "triggerPartialScreenshot" =>
         IF shortcutsKeyPressed /\ powerKeyPressed
         THEN /\ out' = <<PartialScreenshot, CanceledUp(shortcutsKeyCode),
                          CanceledUp(powerKeyCode)>>
              /\ ~shortcutsKeyPressed'
              /\ ~powerKeyPressed'
         ELSE /\ out' = <<>>
              /\ shortcutsKeyPressed' = shortcutsKeyPressed
              /\ powerKeyPressed' = powerKeyPressed]_vars

\* The callback has taken the partial screenshot while a second callback
\* is still queued, which will find both flags cleared.
C14_Witness ==
    /\ step = "triggerPartialScreenshot"
    /\ CountOf(out, PartialScreenshot) = 1
    /\ pending = 1

\* ---------------------------------------------------------------------
\* C15
\* ---------------------------------------------------------------------

\* C15: right after an accepted up-edge of either role no callback is
\* queued; a partial screenshot is requested only by the run of a queued
\* callback, and a callback gets queued only by an accepted down-edge that
\* arms the timer.  So no partial screenshot is requested between an
\* accepted up-edge and the next down-edge that arms the timer, however
\* many callbacks were queued before the up-edge.
C15_CancelEffective ==
    [][/\ (UpEdgeOf("shortcuts") \/ UpEdgeOf("power")) => pending' = 0
       /\ CountOf(out', PartialScreenshot) > 0 =>
             step' = "triggerPartialScreenshot" /\ pending > 0
       /\ pending' > pending =>
             /\ DownEdgeOf("shortcuts") \/ DownEdgeOf("power")
             /\ CountOf(out', <<"postDelayed", longPressTimeout>>) = 1]_vars

\* The Power up that follows Shortcuts down and the arming Power down has
\* removed the queued callback.
C15_Witness ==
    /\ scenario = "SPU-i"
    /\ step = "handleKeyEvent"
    /\ CountOf(out, <<"removeCallbacks">>) = 1
    /\ pending = 0

\* ---------------------------------------------------------------------
\* C16
\* ---------------------------------------------------------------------

ArmLongPress == <<"postDelayed", longPressTimeout>>

\* C16: an accepted down-edge of a role that finds the peer's flag set
\* injects a canceled up for the peer's key code and arms the timer for
\* the long-press interval, and injects no down for the role; one that
\* finds the peer's flag cleared injects exactly one genuine down for the
\* key code of the event, which is the role's learned key code, and does
\* not arm the timer.
C16_DownEdge ==
    [][/\ DownEdgeOf("shortcuts") =>
            IF powerKeyPressed
            THEN /\ out' = <<CanceledUp(powerKeyCode), ArmLongPress>>
                 /\ pending' = pending + 1
            ELSE /\ out' = <<GenuineDown(event'[1].keyCode)>>
                 /\ shortcutsKeyCode' = event'[1].keyCode
                 /\ pending' = pending
       /\ DownEdgeOf("power") =>
            IF shortcutsKeyPressed
            THEN /\ out' = <<CanceledUp(shortcutsKeyCode), ArmLongPress>>
                 /\ pending' = pending + 1
            ELSE /\ out' = <<GenuineDown(event'[1].keyCode)>>
                 /\ powerKeyCode' = event'[1].keyCode
                 /\ pending' = pending]_vars

\* A Shortcuts down that found the power key pressed has canceled the
\* power key and armed the timer.
C16_Witness ==
    /\ step = "handleKeyEvent"
    /\ role = "shortcuts"
    /\ event[1].action = ACTION_DOWN
    /\ out = <<CanceledUp(powerKeyCode), ArmLongPress>>
    /\ powerKeyPressed
    /\ pending >= 1

\* ---------------------------------------------------------------------
\* C17
\* ---------------------------------------------------------------------

CancelTimer == <<"removeCallbacks">>

\* C17: an accepted up-edge of a role that finds the peer's flag set
\* requests one full-screen screenshot, clears the peer's flag and injects
\* no key event; one that finds the peer's flag cleared injects exactly
\* one genuine up for the role's own key code and requests no screenshot.
\* Either way the role's own flag is false and no callback is queued
\* afterwards.
C17_UpEdge ==
    [][/\ UpEdgeOf("shortcuts") =>
            /\ IF powerKeyPressed
               THEN out' = <<FullScreenshot, CancelTimer>> /\ ~powerKeyPressed'
               ELSE /\ out' = <<GenuineUp(shortcutsKeyCode'), CancelTimer>>
                    /\ ~powerKeyPressed'
            /\ ~shortcutsKeyPressed'
            /\ pending' = 0
       /\ UpEdgeOf("power") =>
            /\ IF shortcutsKeyPressed
               THEN out' = <<FullScreenshot, CancelTimer>> /\ ~shortcutsKeyPressed'
               ELSE /\ out' = <<GenuineUp(powerKeyCode'), CancelTimer>>
                    /\ ~shortcutsKeyPressed'
            /\ ~powerKeyPressed'
            /\ pending' = 0]_vars

\* A Shortcuts up that found the power key pressed has requested the
\* full-screen screenshot and cleared the power key's flag.
C17_Witness ==
    /\ step = "handleKeyEvent"
    /\ role = "shortcuts"
    /\ event[1].action = ACTION_UP
    /\ out = <<FullScreenshot, CancelTimer>>
    /\ lastEdge["power"] = "down"
    /\ ~powerKeyPressed
    /\ ~shortcutsKeyPressed

\* ---------------------------------------------------------------------
\* C18
\* ---------------------------------------------------------------------

\* C18: a role's pressed flag is true only if the role's most recent
\* accepted down/up event was a down-edge processed while interactive and
\* no accepted up-edge of the role or of the peer and no run of the
\* callback that took the partial screenshot has come since; an event
\* that no role accepts, or whose action is neither down nor up, changes
\* no flag.
C18_FlagsTrackEdges ==
    [][/\ shortcutsKeyPressed' => tracked'["shortcuts"]
       /\ powerKeyPressed' => tracked'["power"]
       /\ (/\ step' = "handleKeyEvent"
           /\ \/ role' = "none"
              \/ event'[1].action \notin {ACTION_DOWN, ACTION_UP})
          => /\ shortcutsKeyPressed' = shortcutsKeyPressed
             /\ powerKeyPressed' = powerKeyPressed]_vars

\* ---------------------------------------------------------------------
\* C19
\* ---------------------------------------------------------------------

\* Every event the handler can be given in the current state, with either
\* answer of the device lookup.
LookupInputs ==
    UNION {{[k EXCEPT !.device = dev] : dev \in {Null, Registered(k.deviceId)}} :
              k \in KeyEvents}

NameMatches(e, name) == e.device # Null /\ e.device[1].name = name

\* C19: in every reachable state, also after lookups that failed, an
\* event whose device is not registered or carries another name leaves an
\* unbound role unbound and is not accepted by it (it is returned to the
\* caller unless the other role accepts it), and an event from a device
\* with the role's expected name binds an unbound role to its device id.
C19_FailedLookupNotCached ==
    \A e \in LookupInputs, i \in BOOLEAN :
       LET r == handleKeyEvent(State, e, i)
       IN /\ (/\ trustedShortcutsDeviceId = 0
              /\ ~NameMatches(e, TRUSTED_SHORTCUTS_DEVICE_NAME))
             => /\ r.state.trustedShortcutsDeviceId = 0
                /\ r.role # "shortcuts"
          /\ (/\ trustedPowerDeviceId = 0
              /\ ~NameMatches(e, TRUSTED_POWER_DEVICE_NAME))
             => /\ r.state.trustedPowerDeviceId = 0
                /\ r.role # "power"
          /\ r.role = "none" => r.returned = <<e>>
          /\ (trustedShortcutsDeviceId = 0 /\ trustedPowerDeviceId = 0
                /\ e.device = Null) => r.role = "none"
          /\ (/\ trustedShortcutsDeviceId = 0
              /\ NameMatches(e, TRUSTED_SHORTCUTS_DEVICE_NAME))
             => r.state.trustedShortcutsDeviceId = e.deviceId
          /\ (/\ trustedPowerDeviceId = 0
              /\ NameMatches(e, TRUSTED_POWER_DEVICE_NAME))
             => r.state.trustedPowerDeviceId = e.deviceId

\* Both roles have failed a lookup earlier in the run and are bound now,
\* and the shortcuts role has just accepted an event.
C19_Witness ==
    /\ lookupFailed = {"shortcuts", "power"}
    /\ trustedShortcutsDeviceId # 0
    /\ trustedPowerDeviceId # 0
    /\ step = "handleKeyEvent"
    /\ role = "shortcuts"

\* ---------------------------------------------------------------------
\* C20
\* ---------------------------------------------------------------------

\* handleKeyEvent with the two handlers called in the other order:
\* handleShortcutsKeyEvent runs only when handlePowerKeyEvent returned
\* false.
handleKeyEventPowerFirst(s, e, i) ==
    LET b == handlePowerKeyEvent(s, e, i)
        a == handleShortcutsKeyEvent(b.state, e, i)
    IN IF b.result
       THEN [state |-> b.state, returned |-> Null, role |-> "power"]
       ELSE IF a.result
       THEN [state |-> a.state, returned |-> Null, role |-> "shortcuts"]
       ELSE [state |-> a.state, returned |-> <<e>>, role |-> "none"]

\* C20: in every reachable state, under every configuration of the two
\* files (equal scan codes included), every event gets the same return
\* value, the same fields afterwards and the same injections, screenshot
\* requests and timer operations whichever handler is called first.
C20_OrderIrrelevant ==
    \A e \in LookupInputs, i \in BOOLEAN :
       LET r == handleKeyEvent(State, e, i)
           q == handleKeyEventPowerFirst(State, e, i)
       IN /\ r.returned = q.returned
          /\ r.state = q.state
          /\ r.role = q.role

\* Both roles carry the same scan code and are bound, and the power role
\* has accepted a down-edge while the shortcuts key is pressed.
C20_Witness ==
    /\ shortcutsScanCode = powerScanCode
    /\ trustedShortcutsDeviceId # 0
    /\ trustedPowerDeviceId # 0
    /\ step = "handleKeyEvent"
    /\ role = "power"
    /\ shortcutsKeyPressed
    /\ powerKeyPressed
    /\ pending > 0

\* ---------------------------------------------------------------------
\* C21
\* ---------------------------------------------------------------------

\* The RGB part of a stored state is not zero; of a state never assigned,
\* the RGB part of the memory under it.
RgbNonZero(s) ==
    IF Assigned(s) THEN RgbPart(s.color) # <<0, 0, 0, 0>> ELSE s.lit

\* The stored state the claim gives the LED to: <<s>> for the state s,
\* <<>> for none.
Selected ==
    IF RgbNonZero(mNotificationState) THEN <<mNotificationState>>
    ELSE IF RgbNonZero(mAttentionState) THEN <<mAttentionState>>
    ELSE IF RgbNonZero(mBatteryState) THEN <<mBatteryState>>
    ELSE <<>>

\* The value v was the last one written to attribute p: the attribute
\* holds it, unless the kernel offers no such attribute and there is
\* nothing to write to.
Written(p, v) == p \in openable => sysfs[p] = v

\* What writing state s to the RGB LED leaves in each attribute, <<>> in
\* those it does not write: the writes of setSpeakerLightLocked where
\* nothing has been written yet.
WritesOf(s) ==
    setSpeakerLightLocked(
        [LightRecord EXCEPT !.sysfs = [p \in SysfsPaths |-> <<>>]], s).sysfs

\* State s was the last one written to the RGB LED: every attribute that
\* writing s sets (brightness and rgb_blink for a steady state; start_idx,
\* duty_pcts, pause_lo, pause_hi, ramp_step_ms and rgb_blink for a
\* blinking one) holds what writing s leaves there.
LedShows(s) ==
    LET w == WritesOf(s)
    IN \A p \in LedPaths : w[p] # <<>> => sysfs[p] = w[p]

LedOff ==
    \A p \in {kRedLedPath, kGreenLedPath, kBlueLedPath,
               kRedBlinkPath, kGreenBlinkPath, kBlueBlinkPath} :
       Written(p, <<0>>)

\* C21: once a call for the notification, attention or battery light has
\* been made, the RGB LED holds the stored notification state if its RGB
\* part is not zero, else the attention state if lit, else the battery
\* state if lit, else brightness 0 and blink 0 for the three colours; a
\* call for the backlight changes neither the three stored states nor any
\* attribute of the RGB LED.  A stored state is the one a call assigned
\* or, before any, whatever the memory under it holds.
C21_LedPriority ==
    /\ ledSet => IF Selected = <<>> THEN LedOff ELSE LedShows(Selected[1])
    /\ \A state \in LightStates :
          LET r == setLight(LightRecord, "BACKLIGHT", state).state
          IN /\ r.mNotificationState = mNotificationState
             /\ r.mAttentionState = mAttentionState
             /\ r.mBatteryState = mBatteryState
             /\ \A p \in LedPaths : r.sysfs[p] = sysfs[p]

\* A backlight call has been made, calls for the attention and the battery
\* light have stored two different lit requests, and the LED shows the
\* attention state and not the battery state; the notification state has
\* never been assigned, and the memory under it is unlit.
C21_Witness ==
    /\ ledSet
    /\ sysfs[kLcdBacklightPath] # <<>>
    /\ ~Assigned(mNotificationState)
    /\ ~RgbNonZero(mNotificationState)
    /\ mAttentionState \in LightStates
    /\ mBatteryState \in LightStates
    /\ RgbNonZero(mAttentionState)
    /\ RgbNonZero(mBatteryState)
    /\ mAttentionState # mBatteryState
    /\ LedShows(mAttentionState)
    /\ ~LedShows(mBatteryState)

\* ---------------------------------------------------------------------
\* C22
\* ---------------------------------------------------------------------

\* C22: as long as the accepted events of each role alternate down, up,
\* down, up, a genuine up is injected for a key code only while that key
\* code is genuinely down in the injected stream, that is after a genuine
\* down that no injected up, canceled or not, has closed yet.
C22_NoOrphanRelease ==
    [][alternating' =>
         \A code \in KeyCodes :
            CountOf(out', GenuineUp(code)) > 0 => code \in keyDown]_vars

\* ---------------------------------------------------------------------
\* C23
\* ---------------------------------------------------------------------

\* C23: after a run of the callback has taken the partial screenshot, no
\* step requests a screenshot of either kind, the accepted up-edges of the
\* two keys included, until an accepted down-edge has been processed while
\* the device is interactive.
C23_OneScreenshotPerGesture ==
    [][afterPartial => NoScreenshot(out')]_vars

\* After the partial screenshot both keys have been released, the power
\* key last, and its up-edge was passed on as a genuine up.
C23_Witness ==
    /\ afterPartial
    /\ step = "handleKeyEvent"
    /\ role = "power"
    /\ event[1].action = ACTION_UP
    /\ lastEdge["shortcuts"] = "none"
    /\ lastEdge["power"] = "none"
    /\ alternating
    /\ out = <<GenuineUp(powerKeyCode), CancelTimer>>

====
